---------------------------- MODULE Spec2Model ----------------------------
(***************************************************************************)
(* A model of dump_imap.py: the export of the messages of remote IMAP      *)
(* folders to .eml files, with the optional move of every exported message *)
(* to a trash folder.                                                      *)
(*                                                                         *)
(* Text is a sequence of Unicode code points, bytes are numbers 0..255.    *)
(* The remote side (the imaplib session `mail`) is modelled by the IMAP    *)
(* semantics of the commands the program issues: sequence numbers are      *)
(* positions in the selected folder, EXPUNGE and CLOSE remove every        *)
(* message flagged \Deleted and renumber the rest.                         *)
(***************************************************************************)
EXTENDS Integers, Sequences, FiniteSets, TLC

\* ------------------------------------------------------------------ bounds

\* Messages per remote folder at most.
MaxMsgs == 2
\* Session calls that raise or report a non-success status, per run, at most.
MaxFaults == 2
\* Stand-in for the interpreter's recursion limit (sys.getrecursionlimit(),
\* 1000 by default): the deepest nesting of delete() inside delete().
RecursionLimit == 1
\* Code points per name in the name-fitting specification at most.
MaxNameLen == 3
\* Largest PC_NAME_MAX drawn in the name-fitting specification.
MaxNameMax == 8
\* Code points per header in the naming specification at most.
MaxHeaderLen == 2

\* -------------------------------------------------------------------- text

Min(a, b) == IF a < b THEN a ELSE b
Max(a, b) == IF a > b THEN a ELSE b

\* Python's s[:k]: the first k items, or all but the last -k when k < 0.
SliceTo(s, k) ==
  IF k >= 0 THEN SubSeq(s, 1, Min(k, Len(s)))
  ELSE SubSeq(s, 1, Max(0, Len(s) + k))

RECURSIVE Concat(_)
\* ''.join(parts)
Concat(parts) ==
  IF parts = <<>> THEN <<>> ELSE Head(parts) \o Concat(Tail(parts))

RECURSIVE RemoveAll(_, _)
\* re.sub(r'[chars]', '', s): s without the code points in chars.
RemoveAll(s, chars) ==
  IF s = <<>> THEN <<>>
  ELSE IF Head(s) \in chars THEN RemoveAll(Tail(s), chars)
  ELSE <<Head(s)>> \o RemoveAll(Tail(s), chars)

\* re.sub(from, to, s) for single code points.
ReplaceAll(s, from, to) == [i \in 1..Len(s) |-> IF s[i] = from THEN to ELSE s[i]]

\* str.strip() strips these: space, \t, \n, \v, \f, \r.
Whitespace == {32, 9, 10, 11, 12, 13}

RECURSIVE LStrip(_)
LStrip(s) ==
  IF s # <<>> /\ Head(s) \in Whitespace THEN LStrip(Tail(s)) ELSE s

RECURSIVE RStrip(_)
RStrip(s) ==
  IF s # <<>> /\ s[Len(s)] \in Whitespace THEN RStrip(SubSeq(s, 1, Len(s) - 1)) ELSE s

\* str.strip()
Strip(s) == RStrip(LStrip(s))

\* str.lower() on the letters A-Z (the other code points of the model have no case).
Lower(s) == [i \in 1..Len(s) |-> IF s[i] >= 65 /\ s[i] <= 90 THEN s[i] + 32 ELSE s[i]]

RECURSIVE Split(_, _, _)
\* str.split(sep) for a single code point sep; cur is the part being read.
Split(s, sep, cur) ==
  IF s = <<>> THEN <<cur>>
  ELSE IF Head(s) = sep THEN <<cur>> \o Split(Tail(s), sep, <<>>)
  ELSE Split(Tail(s), sep, Append(cur, Head(s)))

RECURSIVE IntToStr(_)
\* str(n) for n >= 0.
IntToStr(n) ==
  IF n < 10 THEN <<48 + n>> ELSE IntToStr(n \div 10) \o <<48 + (n % 10)>>

\* '%02d' and '%04d' of strftime.
Digits2(n) == <<48 + ((n \div 10) % 10), 48 + (n % 10)>>
Digits4(n) == <<48 + ((n \div 1000) % 10), 48 + ((n \div 100) % 10)>> \o Digits2(n)

IsPrefix(p, s) == Len(p) <= Len(s) /\ SubSeq(s, 1, Len(p)) = p

\* ------------------------------------------------------------------- UTF-8

\* One code point encoded in UTF-8.
EncodeCodePoint(c) ==
  IF c < 128 THEN <<c>>
  ELSE IF c < 2048 THEN <<192 + (c \div 64), 128 + (c % 64)>>
  ELSE IF c < 65536 THEN
    <<224 + (c \div 4096), 128 + ((c \div 64) % 64), 128 + (c % 64)>>
  ELSE <<240 + (c \div 262144), 128 + ((c \div 4096) % 64),
         128 + ((c \div 64) % 64), 128 + (c % 64)>>

RECURSIVE Utf8Encode(_)
\* str.encode('utf-8')
Utf8Encode(s) ==
  IF s = <<>> THEN <<>> ELSE EncodeCodePoint(Head(s)) \o Utf8Encode(Tail(s))

\* Bytes the character led by byte b takes; 0 when b cannot lead a character.
LeadWidth(b) ==
  IF b < 128 THEN 1
  ELSE IF b >= 194 /\ b <= 223 THEN 2
  ELSE IF b >= 224 /\ b <= 239 THEN 3
  ELSE IF b >= 240 /\ b <= 244 THEN 4
  ELSE 0

IsContinuation(b) == b >= 128 /\ b <= 191

\* The code point of one complete character's bytes.
DecodeCodePoint(bs) ==
  IF Len(bs) = 1 THEN bs[1]
  ELSE IF Len(bs) = 2 THEN ((bs[1] - 192) * 64) + (bs[2] - 128)
  ELSE IF Len(bs) = 3 THEN
    ((bs[1] - 224) * 4096) + ((bs[2] - 128) * 64) + (bs[3] - 128)
  ELSE ((bs[1] - 240) * 262144) + ((bs[2] - 128) * 4096)
       + ((bs[3] - 128) * 64) + (bs[4] - 128)

\* What a failed decode yields (UnicodeDecodeError).
DecodeError == <<-1>>

RECURSIVE Utf8Decode(_)
\* bytes.decode('utf-8'): the text, or DecodeError.
Utf8Decode(bs) ==
  IF bs = <<>> THEN <<>>
  ELSE LET w == LeadWidth(Head(bs)) IN
    IF w = 0 \/ Len(bs) < w
       \/ \E i \in 2..w : ~IsContinuation(bs[i])
    THEN DecodeError
    ELSE LET rest == Utf8Decode(SubSeq(bs, w + 1, Len(bs))) IN
      IF rest = DecodeError THEN DecodeError
      ELSE <<DecodeCodePoint(SubSeq(bs, 1, w))>> \o rest

RECURSIVE DecodeDroppingBytes(_)
\* The while loop of trim_file_name: decode, dropping one more trailing
\* byte after every UnicodeDecodeError.
DecodeDroppingBytes(filename_bytes) ==
  IF Utf8Decode(filename_bytes) # DecodeError THEN Utf8Decode(filename_bytes)
  ELSE DecodeDroppingBytes(SliceTo(filename_bytes, -1))

\* A faulty max_main_bytes that forgets the extension and the dot; C8's
\* byte bound does not survive it.
max_main_bytes_without_ext(file_ext, max_length) == max_length

\* max_main_bytes of trim_file_name.
max_main_bytes(file_ext, max_length) == max_length - Len(Utf8Encode(file_ext)) - 1

\* trim_file_name(filename, file_ext, output_dir), max_length being
\* os.pathconf(output_dir, 'PC_NAME_MAX').
trim_file_name(filename, file_ext, max_length) ==
  IF Len(Utf8Encode(filename)) > max_main_bytes(file_ext, max_length)
  THEN DecodeDroppingBytes(
         SliceTo(Utf8Encode(filename), max_main_bytes(file_ext, max_length)))
  ELSE filename

\* ------------------------------------------------------- string literals

\* "Unknown Date"
UnknownDate == <<85, 110, 107, 110, 111, 119, 110, 32, 68, 97, 116, 101>>
\* 'No subject'
NoSubject == <<78, 111, 32, 115, 117, 98, 106, 101, 99, 116>>
\* ' - '
Separator == <<32, 45, 32>>
\* FILENAME_EXT = "eml"
FILENAME_EXT == <<101, 109, 108>>
\* args.trash_folder, 'Trash' by default
trash_folder == <<84, 114, 97, 115, 104>>
\* '*', the default of args.remote_folder
Star == <<42>>

\* ---------------------------------------------------------------- messages

\* None, and an exception raised inside the try block of the metadata
\* extraction; neither is a text.
None == <<-2>>
Raised == <<-3>>

\* A Subject header holding an encoded word of an unknown charset,
\* '=?x?b?QQ==?=': email.header.make_header raises LookupError on it.
BadEncodedWord == <<61, 63, 120, 63, 98, 63, 81, 81, 61, 61, 63, 61>>

\* A Date header that email.utils.parsedate_tz cannot parse.
GarbageDate == <<115, 111, 111, 110>>

\* The messages of the model. subject, date and message_id are what
\* msg['Subject'], msg['Date'] and msg['Message-ID'] return: None for a
\* missing header. A parseable Date header is given by its local time
\* <<year, month, day, hour, minute, second>>. body tells the raw bytes
\* of messages with equal headers apart.
Catalogue ==
  << \* 1: Subject: Test / Date: 2024-01-01 10:00:00 / Message-ID: <a1>
     [subject |-> <<84, 101, 115, 116>>, date |-> <<2024, 1, 1, 10, 0, 0>>,
      message_id |-> <<60, 97, 49, 62>>, body |-> 1],
     \* 2: no headers at all
     [subject |-> None, date |-> None, message_id |-> None, body |-> 2],
     \* 3: a second copy of message 1 (same headers, another body)
     [subject |-> <<84, 101, 115, 116>>, date |-> <<2024, 1, 1, 10, 0, 0>>,
      message_id |-> <<60, 97, 49, 62>>, body |-> 3],
     \* 4: no Subject / Date: 2024-02-03 04:05:06 / Message-ID: <d4>
     [subject |-> None, date |-> <<2024, 2, 3, 4, 5, 6>>,
      message_id |-> <<60, 100, 52, 62>>, body |-> 4],
     \* 5: no headers at all
     [subject |-> None, date |-> None, message_id |-> None, body |-> 5] >>

\* Messages are named by their place in the catalogue.
Msgs == 1..Len(Catalogue)

\* The UID the server gave message m: stable, and no sequence number.
UidOf(m) == 100 + m

\* The raw RFC822 bytes of message m, as the server returns them.
RawBytes(m) == <<822, m>>

\* email.message_from_bytes(raw): the structured message.
message_from_bytes(raw) == Catalogue[raw[2]]

\* ------------------------------------------------------ metadata and name

\* str(email.header.make_header(email.header.decode_header(h))): raises
\* TypeError for None and LookupError for an unknown charset.
decode_header(h) ==
  IF h = None \/ h = BadEncodedWord THEN Raised ELSE h

\* email.utils.parsedate_tz(h): the date tuple, or None.
parsedate_tz(h) == IF h # None /\ Len(h) = 6 THEN h ELSE None

\* datetime.strftime('%Y-%m-%d %H:%M:%S')
strftime(d) ==
  Digits4(d[1]) \o <<45>> \o Digits2(d[2]) \o <<45>> \o Digits2(d[3]) \o <<32>>
  \o Digits2(d[4]) \o <<58>> \o Digits2(d[5]) \o <<58>> \o Digits2(d[6])

\* The try block of process: <<subject, date, message_id>> as they stand
\* after it. Any exception leaves what was not yet assigned at its
\* default ('No subject', '', '').
extract_metadata(msg) ==
  IF decode_header(msg.subject) = Raised THEN <<NoSubject, <<>>, <<>>>>
  ELSE << decode_header(msg.subject),
          IF parsedate_tz(msg.date) # None
          THEN strftime(parsedate_tz(msg.date)) \o Separator ELSE <<>>,
          msg.message_id >>

\* `not message_id`: None or ''.
lacks_message_id(message_id) == message_id = None \/ message_id = <<>>

\* unknown_message_id_counter after the message is named.
next_counter(msg, counter) ==
  IF lacks_message_id(extract_metadata(msg)[3]) THEN counter + 1 ELSE counter

\* The subject with \n, \r and " removed, / replaced by - and stripped.
sanitize_subject(subject) == Strip(ReplaceAll(RemoveAll(subject, {10, 13, 34}), 47, 45))

\* A faulty sanitizing that leaves the message id as it is; C15 does not
\* survive it.
message_id_as_it_is(message_id) == message_id

\* The message id without < > $ \ and /.
sanitize_message_id(message_id) == RemoveAll(message_id, {60, 62, 36, 92, 47})

\* file = date + message_id + ' - ' + subject, before it is trimmed.
compose_file(msg, counter) ==
  LET meta == extract_metadata(msg)
      date == IF meta[2] = <<>> THEN UnknownDate ELSE meta[2]
      message_id == IF lacks_message_id(meta[3])
                    THEN IntToStr(counter + 1) ELSE meta[3]
  IN date \o sanitize_message_id(message_id) \o Separator \o sanitize_subject(meta[1])

\* ------------------------------------------------------------ environment

\* The folder names of the server's LIST response, as they stand after the
\* hierarchy delimiter: INBOX and "My Work" (quoted by the server).
INBOX == <<73, 78, 66, 79, 88>>
MyWork == <<34, 77, 121, 32, 87, 111, 114, 107, 34>>
RemoteFolders == <<INBOX, MyWork>>

\* Values of -r/--remote-folder: *, '"my work", INBOX' and
\* 'Nope,inbox,Zed' (two names that match no remote folder).
RemoteFolderArgs ==
  { Star,
    <<34, 109, 121, 32, 119, 111, 114, 107, 34, 44, 32, 73, 78, 66, 79, 88>>,
    <<78, 111, 112, 101, 44, 105, 110, 98, 111, 120, 44, 90, 101, 100>> }

\* PC_NAME_MAX of the output directory, 255 on the usual file systems.
NameMaxValues == {255}

\* The messages the first folder may hold; the second holds message 5.
InboxMsgs == 1..4

\* The sequences without repetition over S of length n at most.
InjectiveSeqs(S, n) ==
  UNION { { q \in [1..k -> S] : \A i, j \in 1..k : i # j => q[i] # q[j] } : k \in 0..n }

\* The set of the items of sequence q.
Range(q) == { q[i] : i \in DOMAIN q }

\* ------------------------------------------------------------------- state

VARIABLES
  \* the run's surroundings, fixed at its start
  args,                \* the parsed command line: list, delete_remote, remote_folder
  local_isdir,         \* os.path.isdir(args.local_folder)
  name_max,            \* os.pathconf(final_dir, 'PC_NAME_MAX')
  delimiter,           \* the hierarchy delimiter of the server's LIST lines
  initial,             \* the remote folders, the flags and the output
                       \* directories at the start of the run
  \* the server
  mailbox,             \* folder name -> its messages, by sequence number
  deleted_flags,       \* the messages flagged \Deleted
  trash,               \* message -> its copies in the trash folder
  \* the local file system
  dirs,                \* the per-folder output directories that exist
  files,               \* <<directory, file name>> -> the bytes of the file
  made,                \* the directories os.makedirs was called with
  \* the program
  pc,                  \* the statement main is at
  remote_folders_map,  \* remote_folders_map of main
  remote_folder,       \* args.remote_folder once main has resolved it
  fidx,                \* position of `for folder in args.remote_folder`
  folder,              \* the selected folder, by its original name
  tokens,              \* data[0].split() of process
  tidx,                \* position of `for num in data[0].split()`
  num,                 \* num of process and delete
  data,                \* data[0][1], the payload of the last fetch_message
  unknown_message_id_counter,
  msg_uid,             \* msg_uid of delete
  depth,               \* calls of delete inside delete's except clause
  error,               \* the exception main's handler caught
  faults,              \* Session calls that raised or reported non-success
  \* what has happened, for the properties
  found,               \* the messages of the folder when it was searched
  count_printed,       \* the number print shows before ' messages found!'
  isdir_checks,        \* calls of os.path.isdir(args.local_folder)
  written,             \* the files written: folder, token, message, the
                       \* bytes fetch_message returned for it, path
  expunged,            \* messages removed by the expunge of delete
  attempt,             \* the Session calls of the current attempt of delete
  last_op,             \* the last Session call of the run
  logouts,             \* calls of mail.logout
  \* the name-fitting specification
  fit,
  \* the naming specification
  naming

env == <<args, local_isdir, name_max, delimiter, initial, fit, naming>>
server == <<mailbox, deleted_flags, trash, expunged>>
disk == <<dirs, files, written, made>>
folders == <<remote_folders_map, remote_folder, fidx, folder>>
messages == <<tokens, tidx, num, data, unknown_message_id_counter, found,
             count_printed, isdir_checks>>
vars == <<env, server, disk, folders, messages, pc, msg_uid, depth, error,
          faults, attempt, last_op, logouts>>

NoError == [type |-> "", args |-> <<>>]

\* The name-fitting specification at rest.
FitIdle == [pc |-> "idle", name |-> <<>>, ext |-> <<>>, max |-> 0,
            out |-> <<>>, again |-> <<>>]

\* final_dir: os.path.join(output_dir, folder.replace('"', '')), given by
\* its part below output_dir.
final_dir(f) == RemoveAll(f, {34})

\* A faulty check that takes every directory for missing; C17 does not
\* survive it.
makedirs_always(d, existing) == TRUE

\* `if not os.path.isdir(final_dir)`: os.makedirs(final_dir) is called.
makedirs_needed(d, existing) == d \notin existing

\* The naming specification at rest.
NamingIdle == [pc |-> "idle", msg |-> <<>>, counter |-> 0, max |-> 0,
               file |-> <<>>, out |-> <<>>]

\* The program and its records before main's first statement.
Start ==
  /\ initial = [mailbox |-> mailbox, deleted_flags |-> deleted_flags,
                dirs |-> dirs]
  /\ trash = [m \in Msgs |-> 0]
  /\ files = <<>>
  /\ made = <<>>
  /\ pc = "login"
  /\ remote_folders_map = <<>>
  /\ remote_folder = <<>>
  /\ fidx = 0
  /\ folder = <<>>
  /\ tokens = <<>>
  /\ tidx = 0
  /\ num = 0
  /\ data = <<>>
  /\ unknown_message_id_counter = 0
  /\ msg_uid = 0
  /\ depth = 0
  /\ error = NoError
  /\ faults = 0
  /\ found = <<>>
  /\ count_printed = 0
  /\ isdir_checks = 0
  /\ written = <<>>
  /\ expunged = {}
  /\ attempt = <<>>
  /\ last_op = "connect"
  /\ logouts = 0

\* The state once the connection is open (imaplib.IMAP4_SSL returned): any
\* command line, any first folder of MaxMsgs messages at most, one of them
\* at most already flagged \Deleted, and, in a run that only exports, the
\* output directory of the second folder there already or not.
Init ==
  /\ args \in [list : BOOLEAN, delete_remote : BOOLEAN,
               remote_folder : RemoteFolderArgs]
  /\ local_isdir \in BOOLEAN
  /\ name_max \in NameMaxValues
  /\ delimiter \in {46, 47}
  /\ \E inbox \in InjectiveSeqs(InboxMsgs, MaxMsgs) :
       mailbox = [f \in Range(RemoteFolders) |->
                    IF f = INBOX THEN inbox ELSE <<5>>]
  /\ \E flagged \in SUBSET Range(mailbox[INBOX]) :
       /\ Cardinality(flagged) <= 1
       /\ deleted_flags = flagged
  /\ dirs \in {{}} \cup (IF args.delete_remote THEN {} ELSE {{final_dir(MyWork)}})
  /\ Start
  /\ fit = FitIdle
  /\ naming = NamingIdle

\* ----------------------------------------------------------------- Session

\* A Session call may raise or report a non-success status while the run
\* has faults left.
CanFault == faults < MaxFaults

\* A faulty handling that records the error and goes on with the next
\* folder; C12 does not survive it.
Raise_and_go_on(type, a) ==
  /\ error' = [type |-> type, args |-> a]
  /\ pc' = "select"

\* An exception reaches `except BaseException` of main.
Raise(type, a) ==
  /\ error' = [type |-> type, args |-> a]
  /\ pc' = "except"

\* mail.search(None, 'ALL'): the sequence numbers 1..n of the selected folder.
search(f) == [i \in 1..Len(mailbox[f]) |-> i]

\* data[0] of mail.search: the sequence numbers as one text, separated
\* by single spaces, b'1 2 3'; empty for an empty folder.
search_response(f) ==
  Concat([i \in 1..Len(search(f)) |->
            IF i = 1 THEN IntToStr(search(f)[i])
            ELSE <<32>> \o IntToStr(search(f)[i])])

\* str(len(data[0])) of the print in process: the length of the response.
messages_found(response) == Len(response)

\* The message at sequence number n of folder f, in a set; none when n is
\* out of range.
AtSeq(f, n) == IF n \in 1..Len(mailbox[f]) THEN {mailbox[f][n]} ELSE {}

\* The message of folder f with UID u, in a set.
WithUid(f, u) == { m \in Range(mailbox[f]) : UidOf(m) = u }

\* fetch_uid(mail, num): the text the server answers, sequence number and
\* UID; None when the sequence number is out of range.
fetch_uid(f, n) ==
  IF AtSeq(f, n) = {} THEN None
  ELSE LET m == CHOOSE x \in AtSeq(f, n) : TRUE
       IN IntToStr(n) \o <<32, 40, 85, 73, 68, 32>> \o IntToStr(UidOf(m)) \o <<41>>

RECURSIVE StrToInt(_, _)
\* int(digits), acc the value read so far.
StrToInt(digits, acc) ==
  IF digits = <<>> THEN acc
  ELSE StrToInt(Tail(digits), (acc * 10) + (Head(digits) - 48))

IsDigit(c) == c >= 48 /\ c <= 57

\* PATTERN_UID, r'\d+ \(UID (?P<uid>\d+)\)', matches at the start of text
\* with a digits before ' (UID ' and b digits, the uid, before ')'.
pattern_uid_matches(text, a, b) ==
  /\ Len(text) >= a + 6 + b + 1
  /\ \A i \in 1..a : IsDigit(text[i])
  /\ SubSeq(text, a + 1, a + 6) = <<32, 40, 85, 73, 68, 32>>
  /\ \A i \in (a + 7)..(a + 6 + b) : IsDigit(text[i])
  /\ text[a + 6 + b + 1] = 41

\* What parse_uid yields when the pattern does not match (match is None
\* and match.group raises AttributeError) or data[0] is no text.
NoMatch == -1

\* parse_uid(data): the uid group of the match, as a number.
parse_uid(text) ==
  IF text = None THEN NoMatch
  ELSE IF \E a, b \in 1..Len(text) : pattern_uid_matches(text, a, b)
  THEN LET ab == CHOOSE ab \in (1..Len(text)) \X (1..Len(text)) :
                   pattern_uid_matches(text, ab[1], ab[2])
       IN StrToInt(SubSeq(text, ab[1] + 7, ab[1] + 6 + ab[2]), 0)
  ELSE NoMatch

\* mail.uid('COPY', msg_uid, args.trash_folder) on the server.
uid_copy_effect(f, u) ==
  [m \in Msgs |-> IF m \in WithUid(f, u) THEN trash[m] + 1 ELSE trash[m]]

\* mail.uid('STORE', msg_uid, '+FLAGS', '(\\Deleted)') on the server.
uid_store_effect(f, u) == deleted_flags \cup WithUid(f, u)

\* mail.expunge() on the server, and the expunge part of mail.close(): the
\* selected folder without its messages flagged \Deleted.
expunge_effect(f) ==
  [mailbox EXCEPT ![f] = SelectSeq(mailbox[f], LAMBDA m : m \notin deleted_flags)]

\* -------------------------------------------------------------------- main

\* A faulty main without its finally clause: the run ends where the try
\* statement ends; C5 does not survive it.
without_finally_clause == "exit"

\* Where main goes after its except clause, and after `return` and the
\* end of its try block: the finally clause.
finally_clause == "finally"

\* mail.login(args.username, args.password)
login ==
  /\ pc = "login"
  /\ last_op' = "login"
  /\ \/ /\ pc' = "list"
        /\ UNCHANGED <<error, faults>>
     \/ /\ CanFault
        /\ faults' = faults + 1
        /\ Raise("imaplib.error", <<>>)
  /\ UNCHANGED <<env, server, disk, folders, messages, msg_uid, depth,
                 attempt, logouts>>

\* remote_folder.decode().split(' "." ')[1] for every line of mail.list(),
\* which raises IndexError when the server's delimiter is not a dot.
list_names == RemoteFolders

\* remote_folders_map as main builds it from the names of mail.list().
folders_map(names) ==
  [i \in 1..Len(names) |-> [original |-> names[i], lower |-> Strip(Lower(names[i]))]]

\* args.remote_folder as main resolves it: every remote folder in lower
\* case for '*', the requested names lowered and stripped otherwise.
resolve_remote_folder(arg, names) ==
  IF arg = Star THEN [i \in 1..Len(names) |-> Lower(names[i])]
  ELSE LET parts == Split(Lower(arg), 44, <<>>)
       IN [i \in 1..Len(parts) |-> Strip(parts[i])]

\* A faulty diff that keeps one unmatched name only; C11 does not survive
\* it.
diff_first_only(requested, map) ==
  LET d == Range(requested) \ { map[i].lower : i \in 1..Len(map) }
  IN IF d = {} THEN {} ELSE {CHOOSE n \in d : TRUE}

\* diff of main: the requested names that are no remote folder.
diff(requested, map) ==
  Range(requested) \ { map[i].lower : i \in 1..Len(map) }

\* mail.list(), the build of remote_folders_map, --list, and the
\* resolution of args.remote_folder.
list_folders ==
  /\ pc = "list"
  /\ last_op' = "list"
  /\ \/ /\ delimiter = 46
        /\ remote_folders_map' = folders_map(list_names)
        /\ IF args.list THEN
             \* the folders are printed; return
             /\ pc' = finally_clause
             /\ UNCHANGED <<remote_folder, fidx, error>>
           ELSE LET requested == resolve_remote_folder(args.remote_folder, list_names) IN
             IF args.remote_folder # Star
                /\ diff(requested, folders_map(list_names)) # {}
             THEN /\ Raise("AttributeError",
                           <<diff(requested, folders_map(list_names))>>)
                  /\ UNCHANGED <<remote_folder, fidx>>
             ELSE /\ remote_folder' = requested
                  /\ fidx' = 1
                  /\ pc' = "select"
                  /\ UNCHANGED error
        /\ UNCHANGED faults
     \/ /\ delimiter # 46
        /\ Raise("IndexError", <<>>)
        /\ UNCHANGED <<remote_folders_map, remote_folder, fidx, faults>>
     \/ /\ CanFault
        /\ faults' = faults + 1
        /\ Raise("imaplib.error", <<>>)
        /\ UNCHANGED <<remote_folders_map, remote_folder, fidx>>
  /\ UNCHANGED <<env, server, disk, folder, messages, msg_uid, depth,
                 attempt, logouts>>

\* [f for f in remote_folders_map if f['lower'] == folder]
matching(name) ==
  SelectSeq(remote_folders_map, LAMBDA f : f.lower = name)

\* `for folder in args.remote_folder`: the look-up of the original name
\* and mail.select(folder).
select ==
  /\ pc = "select"
  /\ fidx <= Len(remote_folder)
  /\ IF matching(remote_folder[fidx]) = <<>> THEN
       /\ Raise("IndexError", <<>>)
       /\ UNCHANGED <<folder, faults, last_op>>
     ELSE
       /\ folder' = matching(remote_folder[fidx])[1].original
       /\ last_op' = "select"
       /\ \/ /\ pc' = "search"
             /\ UNCHANGED <<error, faults>>
          \/ /\ CanFault
             /\ faults' = faults + 1
             /\ \/ Raise("ConnectionError", <<folder'>>)
                \/ Raise("imaplib.error", <<>>)
  /\ UNCHANGED <<env, server, disk, remote_folders_map, remote_folder, fidx,
                 messages, msg_uid, depth, attempt, logouts>>

\* The loop over the folders is over.
folders_done ==
  /\ pc = "select"
  /\ fidx > Len(remote_folder)
  /\ pc' = finally_clause
  /\ UNCHANGED <<env, server, disk, folders, messages, msg_uid, depth, error,
                 faults, attempt, last_op, logouts>>

\* mail.close() after process: IMAP CLOSE removes the messages of the
\* selected folder that are flagged \Deleted.
close ==
  /\ pc = "close"
  /\ last_op' = "close"
  /\ \/ /\ mailbox' = expunge_effect(folder)
        /\ deleted_flags' = deleted_flags \ Range(mailbox[folder])
        /\ fidx' = fidx + 1
        /\ pc' = "select"
        /\ UNCHANGED <<error, faults>>
     \/ /\ CanFault
        /\ faults' = faults + 1
        /\ Raise("imaplib.error", <<>>)
        /\ UNCHANGED <<mailbox, deleted_flags, fidx>>
  /\ UNCHANGED <<env, trash, expunged, disk, remote_folders_map, remote_folder,
                 folder, messages, msg_uid, depth, attempt, logouts>>

\* `except BaseException as e`: the error is printed.
except ==
  /\ pc = "except"
  /\ pc' = finally_clause
  /\ UNCHANGED <<env, server, disk, folders, messages, msg_uid, depth, error,
                 faults, attempt, last_op, logouts>>

\* `finally: mail.logout()`
logout ==
  /\ pc = "finally"
  /\ last_op' = "logout"
  /\ logouts' = logouts + 1
  /\ pc' = "exit"
  /\ UNCHANGED <<env, server, disk, folders, messages, msg_uid, depth, error,
                 faults, attempt>>

\* ----------------------------------------------------------------- process

\* fetch_message(mail, num): the raw bytes of the message at sequence
\* number n of the selected folder; None when n is out of range.
fetch_message(f, n) ==
  IF AtSeq(f, n) = {} THEN None
  ELSE RawBytes(CHOOSE m \in AtSeq(f, n) : TRUE)

\* A faulty check that is made once and remembered; the amended C16 does
\* not survive it.
isdir_call_remembered(calls) == 1

\* `if not os.path.isdir(args.local_folder)`: one more call of isdir.
isdir_call(calls) == calls + 1

\* mail.search, the print of the count, the check of args.local_folder and
\* the reset of the counter.
process_search ==
  /\ pc = "search"
  /\ last_op' = "search"
  /\ \/ /\ tokens' = search(folder)
        /\ found' = mailbox[folder]
        /\ count_printed' = messages_found(search_response(folder))
        /\ isdir_checks' = isdir_call(isdir_checks)
        /\ IF local_isdir
           THEN /\ unknown_message_id_counter' = 0
                /\ tidx' = 1
                /\ pc' = "fetch"
                /\ UNCHANGED error
           ELSE /\ Raise("NotADirectoryError", <<>>)
                /\ UNCHANGED <<unknown_message_id_counter, tidx>>
        /\ UNCHANGED faults
     \/ /\ CanFault
        /\ faults' = faults + 1
        /\ \/ Raise("FileNotFoundError", <<folder>>)
           \/ Raise("imaplib.error", <<>>)
        /\ UNCHANGED <<tokens, found, count_printed, isdir_checks,
                       unknown_message_id_counter, tidx>>
  /\ UNCHANGED <<env, server, disk, folders, num, data, msg_uid, depth,
                 attempt, logouts>>

\* `for num in data[0].split()`: fetch_message(mail, num) and its check.
\* A sequence number that is out of range is answered NO (OSError), BAD
\* (imaplib.error) or OK without data (TypeError), as the server likes.
process_fetch ==
  /\ pc = "fetch"
  /\ tidx <= Len(tokens)
  /\ num' = tokens[tidx]
  /\ last_op' = "fetch_message"
  /\ \/ /\ fetch_message(folder, num') # None
        /\ data' = fetch_message(folder, num')
        /\ pc' = "write"
        /\ UNCHANGED <<error, faults>>
     \/ /\ fetch_message(folder, num') = None
        /\ \E type \in {"OSError", "imaplib.error", "TypeError"} :
             Raise(type, <<num'>>)
        /\ UNCHANGED <<data, faults>>
     \/ /\ CanFault
        /\ faults' = faults + 1
        /\ \/ Raise("OSError", <<num'>>)
           \/ Raise("imaplib.error", <<>>)
        /\ UNCHANGED data
  /\ UNCHANGED <<env, server, disk, folders, tokens, tidx,
                 unknown_message_id_counter, found, count_printed,
                 isdir_checks, msg_uid, depth, attempt,
                 logouts>>

\* The loop over the tokens is over: process returns.
process_done ==
  /\ pc = "fetch"
  /\ tidx > Len(tokens)
  /\ pc' = "close"
  /\ UNCHANGED <<env, server, disk, folders, messages, msg_uid, depth, error,
                 faults, attempt, last_op, logouts>>

\* The file name below final_dir: '{}.{}'.format(file, FILENAME_EXT) with
\* file trimmed.
file_name(msg, counter, max_length) ==
  trim_file_name(compose_file(msg, counter), FILENAME_EXT, max_length)
  \o <<46>> \o FILENAME_EXT

\* A faulty write of the re-serialized structured message, msg.as_bytes(),
\* which is other bytes than the fetched ones; C3 does not survive it.
reserialized_bytes(raw, msg) == <<821, msg.body>>

\* What f.write is given: data[0][1], not the structured message.
written_bytes(raw, msg) == raw

\* open(path, 'wb') and f.write(bytes): the file is created or replaced.
write_file(fs, path, bytes) ==
  [p \in DOMAIN fs \cup {path} |-> IF p = path THEN bytes ELSE fs[p]]

\* The next token of the loop of process.
NextMessage ==
  /\ tidx' = tidx + 1
  /\ pc' = "fetch"

\* The rest of the loop body: the message is parsed, its name composed,
\* the directory made, the name trimmed, the file written, and delete
\* called when args.delete_remote is set.
process_write ==
  /\ pc = "write"
  /\ LET msg == message_from_bytes(data)
         path == <<final_dir(folder),
                   file_name(msg, unknown_message_id_counter, name_max)>>
     IN /\ unknown_message_id_counter' =
             next_counter(msg, unknown_message_id_counter)
        /\ IF makedirs_needed(final_dir(folder), dirs)
           THEN /\ made' = Append(made, final_dir(folder))
                /\ dirs' = dirs \cup {final_dir(folder)}
           ELSE UNCHANGED <<made, dirs>>
        /\ files' = write_file(files, path, written_bytes(data, msg))
        /\ written' = Append(written, [folder |-> folder, num |-> num,
                                       msg |-> data[2], fetched |-> data,
                                       path |-> path])
  /\ IF args.delete_remote
     THEN /\ depth' = 0
          /\ attempt' = <<>>
          /\ pc' = "fetch_uid"
          /\ UNCHANGED tidx
     ELSE /\ NextMessage
          /\ UNCHANGED <<depth, attempt>>
  /\ UNCHANGED <<env, server, folders, tokens, num, data, found, count_printed,
                 isdir_checks, msg_uid,
                 error, faults, last_op, logouts>>

\* ------------------------------------------------------------------ delete

\* The statements of delete.
DeletePcs == {"fetch_uid", "uid_copy", "uid_store", "expunge"}

\* A faulty retry that loops in place instead of calling delete again: it
\* is not bounded by the recursion limit and never raises; C6's amended
\* statement does not survive it.
Retry_without_limit ==
  /\ depth' = Min(depth + 1, RecursionLimit)
  /\ pc' = "fetch_uid"
  /\ UNCHANGED <<error, tidx>>

\* `except: return delete(mail, num)`: the sequence starts again one call
\* deeper; at the recursion limit the call raises RecursionError, which no
\* frame of delete catches (each is in its except clause).
Retry ==
  IF depth < RecursionLimit
  THEN /\ depth' = depth + 1
       /\ pc' = "fetch_uid"
       /\ UNCHANGED <<error, tidx>>
  ELSE /\ Raise("RecursionError", <<>>)
       /\ UNCHANGED <<depth, tidx>>

\* A faulty delete that does not look at the status of COPY; C4 does not
\* survive it.
after_copy_any_status(status) == "uid_store"

\* Where delete goes after mail.uid('COPY', ...) reported status:
\* `if result[0] == 'OK'`, else 'Failed!' and return.
after_copy(status) == IF status = "OK" THEN "uid_store" ELSE "return"

\* delete returns: the next token of the loop of process.
Return == NextMessage

\* fetch_uid(mail, num) and parse_uid: a status other than OK, or no data,
\* gives parse_uid nothing that matches, which raises like the call itself.
delete_fetch_uid ==
  /\ pc = "fetch_uid"
  /\ last_op' = "fetch_uid"
  /\ \/ \E uid \in {parse_uid(text) : text \in {fetch_uid(folder, num)}} :
          \/ /\ uid # NoMatch
             /\ msg_uid' = uid
             /\ attempt' = << <<"fetch_uid", "OK">> >>
             /\ pc' = "uid_copy"
             /\ UNCHANGED <<depth, error, tidx, faults>>
          \/ /\ uid = NoMatch
             /\ attempt' = << <<"fetch_uid", "raise">> >>
             /\ Retry
             /\ UNCHANGED <<msg_uid, faults>>
     \/ /\ CanFault
        /\ faults' = faults + 1
        /\ attempt' = << <<"fetch_uid", "raise">> >>
        /\ Retry
        /\ UNCHANGED msg_uid
  /\ UNCHANGED <<env, server, disk, folders, tokens, num, data,
                 unknown_message_id_counter, found, count_printed,
                 isdir_checks, logouts>>

\* mail.uid('COPY', msg_uid, args.trash_folder). A call that raises may
\* have been carried out by the server (the answer was lost) or not.
delete_uid_copy ==
  /\ pc = "uid_copy"
  /\ last_op' = "uid_copy"
  /\ \/ /\ trash' = uid_copy_effect(folder, msg_uid)
        /\ attempt' = Append(attempt, <<"uid_copy", "OK">>)
        /\ pc' = after_copy("OK")
        /\ UNCHANGED <<depth, error, tidx, faults>>
     \/ /\ CanFault
        /\ faults' = faults + 1
        /\ attempt' = Append(attempt, <<"uid_copy", "NO">>)
        /\ IF after_copy("NO") = "return"
           THEN Return
           ELSE pc' = after_copy("NO") /\ UNCHANGED tidx
        /\ UNCHANGED <<trash, depth, error>>
     \/ /\ CanFault
        /\ faults' = faults + 1
        /\ attempt' = Append(attempt, <<"uid_copy", "raise">>)
        /\ \/ trash' = uid_copy_effect(folder, msg_uid)
           \/ UNCHANGED trash
        /\ Retry
  /\ UNCHANGED <<env, mailbox, deleted_flags, expunged, disk, folders, tokens,
                 num, data, unknown_message_id_counter, found, count_printed,
                 isdir_checks, msg_uid,
                 logouts>>

\* mail.uid('STORE', msg_uid, '+FLAGS', '(\\Deleted)'): its status is not
\* looked at.
delete_uid_store ==
  /\ pc = "uid_store"
  /\ last_op' = "uid_store"
  /\ \/ /\ deleted_flags' = uid_store_effect(folder, msg_uid)
        /\ attempt' = Append(attempt, <<"uid_store", "OK">>)
        /\ pc' = "expunge"
        /\ UNCHANGED <<depth, error, tidx, faults>>
     \/ /\ CanFault
        /\ faults' = faults + 1
        /\ attempt' = Append(attempt, <<"uid_store", "NO">>)
        /\ pc' = "expunge"
        /\ UNCHANGED <<deleted_flags, depth, error, tidx>>
     \/ /\ CanFault
        /\ faults' = faults + 1
        /\ attempt' = Append(attempt, <<"uid_store", "raise">>)
        /\ \/ deleted_flags' = uid_store_effect(folder, msg_uid)
           \/ UNCHANGED deleted_flags
        /\ Retry
  /\ UNCHANGED <<env, mailbox, trash, expunged, disk, folders, tokens, num,
                 data, unknown_message_id_counter, found, count_printed,
                 isdir_checks, msg_uid, logouts>>

\* The messages mail.expunge() removes from folder f.
expunge_removes(f) == Range(mailbox[f]) \cap deleted_flags

\* mail.expunge(): its status is not looked at; 'Ok.' and return.
delete_expunge ==
  /\ pc = "expunge"
  /\ last_op' = "expunge"
  /\ \/ /\ mailbox' = expunge_effect(folder)
        /\ deleted_flags' = deleted_flags \ expunge_removes(folder)
        /\ expunged' = expunged \cup expunge_removes(folder)
        /\ attempt' = Append(attempt, <<"expunge", "OK">>)
        /\ Return
        /\ UNCHANGED <<depth, error, faults>>
     \/ /\ CanFault
        /\ faults' = faults + 1
        /\ attempt' = Append(attempt, <<"expunge", "NO">>)
        /\ Return
        /\ UNCHANGED <<mailbox, deleted_flags, expunged, depth, error>>
     \/ /\ CanFault
        /\ faults' = faults + 1
        /\ attempt' = Append(attempt, <<"expunge", "raise">>)
        /\ \/ /\ mailbox' = expunge_effect(folder)
              /\ deleted_flags' = deleted_flags \ expunge_removes(folder)
              /\ expunged' = expunged \cup expunge_removes(folder)
           \/ UNCHANGED <<mailbox, deleted_flags, expunged>>
        /\ Retry
  /\ UNCHANGED <<env, trash, disk, folders, tokens, num, data,
                 unknown_message_id_counter, found, count_printed,
                 isdir_checks, msg_uid, logouts>>

\* delete(mail, num), one statement at a time.
delete ==
  \/ delete_fetch_uid
  \/ delete_uid_copy
  \/ delete_uid_store
  \/ delete_expunge

\* ----------------------------------------------------------- specification

Next ==
  \/ login
  \/ list_folders
  \/ select
  \/ folders_done
  \/ process_search
  \/ process_fetch
  \/ process_done
  \/ process_write
  \/ delete_fetch_uid
  \/ delete_uid_copy
  \/ delete_uid_store
  \/ delete_expunge
  \/ close
  \/ except
  \/ logout

Spec == Init /\ [][Next]_vars

\* A run with --delete-remote over all remote folders, for every first
\* folder. Every Session call of delete returns or raises, so delete takes
\* its next step as long as it has one.
InitDelete ==
  /\ args \in [list : {FALSE}, delete_remote : {TRUE}, remote_folder : {Star}]
  /\ local_isdir = TRUE
  /\ name_max \in NameMaxValues
  /\ delimiter = 46
  /\ \E inbox \in InjectiveSeqs(InboxMsgs, MaxMsgs) :
       mailbox = [f \in Range(RemoteFolders) |->
                    IF f = INBOX THEN inbox ELSE <<5>>]
  /\ deleted_flags = {}
  /\ dirs = {}
  /\ Start
  /\ fit = FitIdle
  /\ naming = NamingIdle

FairSpec == InitDelete /\ [][Next]_vars /\ WF_vars(delete)

\* ------------------------------------------------------------ name fitting

\* The code points of the names: a (1 byte in UTF-8), e acute (2), the
\* euro sign (3) and an emoji (4).
FitChars == {97, 233, 8364, 128512}

\* The names of MaxNameLen code points at most.
FitNames == UNION { [1..k -> FitChars] : k \in 0..MaxNameLen }

\* The extensions: none, 'e' and 'eml'.
FitExts == {<<>>, <<101>>, FILENAME_EXT}

\* Any name, extension and PC_NAME_MAX.
InitFit ==
  /\ fit \in [pc : {"start"}, name : FitNames, ext : FitExts,
              max : 0..MaxNameMax, out : {<<>>}, again : {<<>>}]
  /\ args = [list |-> FALSE, delete_remote |-> FALSE, remote_folder |-> Star]
  /\ local_isdir = TRUE
  /\ name_max = 255
  /\ delimiter = 46
  /\ mailbox = [f \in Range(RemoteFolders) |-> <<>>]
  /\ deleted_flags = {}
  /\ dirs = {}
  /\ Start
  /\ naming = NamingIdle

\* trim_file_name is called on the name.
fit_apply ==
  /\ fit.pc = "start"
  /\ fit' = [fit EXCEPT !.pc = "fitted",
                        !.out = trim_file_name(fit.name, fit.ext, fit.max)]
  /\ UNCHANGED <<args, local_isdir, name_max, delimiter, initial, naming, server, disk,
                 folders, messages, pc, msg_uid, depth, error, faults, attempt,
                 last_op, logouts>>

\* trim_file_name is called on what it returned.
fit_again ==
  /\ fit.pc = "fitted"
  /\ fit' = [fit EXCEPT !.pc = "refitted",
                        !.again = trim_file_name(fit.out, fit.ext, fit.max)]
  /\ UNCHANGED <<args, local_isdir, name_max, delimiter, initial, naming, server, disk,
                 folders, messages, pc, msg_uid, depth, error, faults, attempt,
                 last_op, logouts>>

NextFit ==
  \/ fit_apply
  \/ fit_again

SpecFit == InitFit /\ [][NextFit]_vars

\* ------------------------------------------------------------------ naming

\* The texts over chars of n code points at most.
Texts(chars, n) == UNION { [1..k -> chars] : k \in 0..n }

\* Subject headers: none, one of an unknown charset, and the texts over
\* / " \n \r space and a.
Subjects == {None, BadEncodedWord} \cup Texts({47, 34, 10, 13, 32, 97}, MaxHeaderLen)

\* Message-ID headers: none, and the texts over < > $ \ / and a.
MessageIds == {None} \cup Texts({60, 62, 36, 92, 47, 97}, MaxHeaderLen)

\* Date headers: none, one that does not parse, one that does.
Dates == {None, GarbageDate, <<2024, 2, 3, 4, 5, 6>>}

\* PC_NAME_MAX of the naming specification: the usual 255, and a limit
\* every composed name exceeds.
NamingMaxValues == {255, 24}

\* Any message headers and PC_NAME_MAX, for the first message of a pass.
InitNaming ==
  /\ naming \in [pc : {"start"},
                 msg : [subject : Subjects, date : Dates,
                        message_id : MessageIds, body : {0}],
                 counter : {0}, max : NamingMaxValues,
                 file : {<<>>}, out : {<<>>}]
  /\ fit = FitIdle
  /\ args = [list |-> FALSE, delete_remote |-> FALSE, remote_folder |-> Star]
  /\ local_isdir = TRUE
  /\ name_max = 255
  /\ delimiter = 46
  /\ mailbox = [f \in Range(RemoteFolders) |-> <<>>]
  /\ deleted_flags = {}
  /\ dirs = {}
  /\ Start

\* The name is composed from the metadata of the message.
name_compose ==
  /\ naming.pc = "start"
  /\ naming' = [naming EXCEPT !.pc = "composed",
                              !.file = compose_file(naming.msg, naming.counter)]
  /\ UNCHANGED <<args, local_isdir, name_max, delimiter, initial, fit, server,
                 disk, folders, messages, pc, msg_uid, depth, error, faults,
                 attempt, last_op, logouts>>

\* file = trim_file_name(file, FILENAME_EXT, final_dir)
name_trim ==
  /\ naming.pc = "composed"
  /\ naming' = [naming EXCEPT !.pc = "fitted",
                              !.out = trim_file_name(naming.file, FILENAME_EXT,
                                                     naming.max)]
  /\ UNCHANGED <<args, local_isdir, name_max, delimiter, initial, fit, server,
                 disk, folders, messages, pc, msg_uid, depth, error, faults,
                 attempt, last_op, logouts>>

NextNaming ==
  \/ name_compose
  \/ name_trim

SpecNaming == InitNaming /\ [][NextNaming]_vars

\* -------------------------------------------------------------- properties

\* The messages whose bytes the run has written to a file.
Exported == { written[i].msg : i \in DOMAIN written }

\* The messages the run has copied to the trash folder.
Trashed == { m \in Msgs : trash[m] > 0 }

\* The messages the run has flagged \Deleted.
FlaggedByDelete == deleted_flags \ initial.deleted_flags

\* The files written in the pass over the selected folder.
PassWritten == SelectSeq(written, LAMBDA w : w.folder = folder)

\* The statements of process and delete, inside the loop over the tokens.
LoopPcs == {"fetch", "write"} \cup DeletePcs

\* C1: delete copies to trash, flags and expunges only messages whose bytes
\* the run has already written, and the UID it resolves from a token is
\* that of the message process fetched and wrote for the token.
C1_DeleteOnlyExported ==
  /\ (Trashed \cup FlaggedByDelete \cup expunged) \subseteq Exported
  /\ pc \in {"uid_copy", "uid_store", "expunge"} => msg_uid = UidOf(data[2])

\* C2: when every Session call succeeds, the k-th token fetches and writes
\* the k-th message the folder held when it was searched, with and without
\* deletion: no fetch fails and the pass ends with every message written.
C2_EveryTokenExported ==
  faults = 0 =>
    /\ pc \in LoopPcs \cup {"close"} =>
         /\ Len(PassWritten) <= Len(found)
         /\ \A k \in 1..Len(PassWritten) : PassWritten[k].msg = found[k]
    /\ pc = "close" => Len(PassWritten) = Len(found)
    /\ pc = "except" => error.type \notin {"OSError", "imaplib.error", "TypeError"}

\* The last entry of written for path p.
LastWrite(p) ==
  written[CHOOSE i \in DOMAIN written :
            /\ written[i].path = p
            /\ \A j \in DOMAIN written : j > i => written[j].path # p]

\* C3: every export file holds, byte for byte, what fetch_message returned
\* for the message last written to it, whether its metadata was extracted
\* or replaced by the literals.
C3_FileHoldsFetchedBytes ==
  /\ DOMAIN files = { written[i].path : i \in DOMAIN written }
  /\ \A p \in DOMAIN files : files[p] = LastWrite(p).fetched

\* C3's case: a message with all its metadata (1) and one named by the
\* literals (2) have both been written.
C3_Witness == {1, 2} \subseteq Exported

\* The Session calls of the current attempt of delete, without their status.
AttemptOps == [i \in DOMAIN attempt |-> attempt[i][1]]

\* C4: an attempt of delete calls fetch_uid, uid COPY, uid STORE and expunge
\* in this order; STORE and expunge come only after a COPY that reported OK,
\* and after a COPY that reported another status the attempt is over:
\* nothing is flagged or expunged and delete does not start again.
C4_DeleteOrder ==
  /\ IsPrefix(AttemptOps, <<"fetch_uid", "uid_copy", "uid_store", "expunge">>)
  /\ Len(attempt) >= 3 => attempt[2] = <<"uid_copy", "OK">>
  /\ (Len(attempt) >= 2 /\ attempt[2] = <<"uid_copy", "NO">>) =>
       /\ Len(attempt) = 2
       /\ pc \notin DeletePcs

\* C4's case: the attempt has ended on a COPY that reported NO.
C4_Witness ==
  /\ Len(attempt) = 2
  /\ attempt[2] = <<"uid_copy", "NO">>
  /\ pc = "fetch"

\* C5: a run that has ended has called mail.logout once, as its last
\* Session call, and mail.logout is called nowhere before the end.
C5_LogoutOnceAtEnd ==
  /\ logouts <= 1
  /\ logouts = 1 <=> pc = "exit"
  /\ pc = "exit" => last_op = "logout"

\* C5's case: the run has ended after mail.select failed.
C5_Witness == pc = "exit" /\ error.type = "ConnectionError"

\* A step of delete in which a Session call (or parse_uid) raised.
RaisedInDelete ==
  /\ pc \in DeletePcs
  /\ attempt' # <<>>
  /\ attempt'[Len(attempt')] = <<pc, "raise">>

\* C6 as stated: delete starts again without bound and never lets a failure
\* reach main's handler.
C6_DeleteNeverPropagates == ~(pc = "except" /\ error.type = "RecursionError")

\* C6, amended: a step of delete that raises starts the sequence again
\* from fetch_uid, one call deeper, and nothing reaches main's handler,
\* while the recursion limit allows; at the limit RecursionError reaches
\* main's handler, which is the only way from delete to it. A delete that
\* was started ends: it returns or RecursionError is raised.
C6_RetryUpToRecursionLimit ==
  /\ [][ /\ RaisedInDelete /\ depth < RecursionLimit =>
              pc' = "fetch_uid" /\ depth' = depth + 1 /\ error' = NoError
         /\ RaisedInDelete /\ depth >= RecursionLimit =>
              pc' = "except" /\ error'.type = "RecursionError"
         /\ pc \in DeletePcs /\ pc' = "except" =>
              RaisedInDelete /\ depth = RecursionLimit ]_vars
  /\ [](pc \in DeletePcs => <>(pc \in {"fetch", "except"}))

\* C6's case: delete has returned after expunge, in a call made by its own
\* except clause.
C6_Witness ==
  /\ depth >= 1
  /\ pc = "fetch"
  /\ attempt # <<>>
  /\ attempt[Len(attempt)] = <<"expunge", "OK">>

\* C7: no two messages of one pass are written to the same path.
C7_OneFilePerMessage ==
  \A i, j \in DOMAIN written :
    (i # j /\ written[i].folder = written[j].folder) =>
      written[i].path # written[j].path

\* The messages written in this pass so far that have no Message-ID
\* header, or an empty one.
WrittenWithoutId ==
  { k \in DOMAIN PassWritten :
      lacks_message_id(Catalogue[PassWritten[k].msg].message_id) }

\* C9: in a pass, the counter is the number of messages written so far that
\* have no usable Message-ID, and the k-th of them that has no Subject and
\* no parseable Date either is named 'Unknown Date<k> - No subject'.
C9_CounterCountsMissingIds ==
  pc \in LoopPcs \cup {"close"} =>
    /\ unknown_message_id_counter = Cardinality(WrittenWithoutId)
    /\ \A k \in WrittenWithoutId :
         LET m == Catalogue[PassWritten[k].msg] IN
         (m.subject = None /\ parsedate_tz(m.date) = None) =>
           PassWritten[k].path[2] =
             UnknownDate
             \o IntToStr(Cardinality({ j \in WrittenWithoutId : j <= k }))
             \o Separator \o NoSubject \o <<46>> \o FILENAME_EXT

\* C10: whatever its Subject header, a written message whose Date header
\* parses has a name that starts with the formatted time and ' - ', and
\* one with a Message-ID has that id, sanitized, after the date segment.
C10_FieldsIndependent ==
  \A i \in DOMAIN written :
    LET m == Catalogue[written[i].msg]
        name == written[i].path[2]
        date == IF parsedate_tz(m.date) # None
                THEN strftime(parsedate_tz(m.date)) \o Separator
                ELSE UnknownDate
    IN /\ parsedate_tz(m.date) # None => IsPrefix(date, name)
       /\ ~lacks_message_id(m.message_id) =>
            IsPrefix(date \o sanitize_message_id(m.message_id) \o Separator, name)

\* The bytes trim_file_name may return at most: PC_NAME_MAX less the
\* extension and the dot.
FitBudget == fit.max - Len(Utf8Encode(fit.ext)) - 1

\* C8 as stated: for every PC_NAME_MAX the fitted name takes FitBudget
\* bytes at most.
C8_FitsAnyLimit ==
  fit.pc = "fitted" => Len(Utf8Encode(fit.out)) <= FitBudget

\* C8, amended: the fitted name is valid text and a prefix of the name for
\* every PC_NAME_MAX, and takes FitBudget bytes at most when PC_NAME_MAX
\* leaves room for the extension and the dot.
C8_FitsWhenRoom ==
  fit.pc = "fitted" =>
    /\ fit.out # DecodeError
    /\ \A i \in DOMAIN fit.out : fit.out[i] \in FitChars
    /\ Utf8Decode(Utf8Encode(fit.out)) = fit.out
    /\ IsPrefix(fit.out, fit.name)
    /\ FitBudget >= 0 => Len(Utf8Encode(fit.out)) <= FitBudget

\* C8's case: the cut fell inside a character, which was dropped whole.
C8_Witness ==
  /\ fit.pc = "fitted"
  /\ FitBudget >= 0
  /\ fit.out # fit.name
  /\ Len(Utf8Encode(fit.out)) < FitBudget

\* The names of -r/--remote-folder as main compares them: split at the
\* commas, lowered and stripped; for every value of the option.
RequestedOf ==
  [a \in RemoteFolderArgs |-> resolve_remote_folder(a, RemoteFolders)]

\* The requested names that are no remote folder's name in lower case.
UnmatchedOf ==
  [a \in RemoteFolderArgs |->
     { n \in Range(RequestedOf[a]) :
         \A i \in DOMAIN RemoteFolders : Strip(Lower(RemoteFolders[i])) # n }]

Requested == RequestedOf[args.remote_folder]
Unmatched == UnmatchedOf[args.remote_folder]

\* Explicit names were requested for an export.
ExplicitNames == args.remote_folder # Star /\ ~args.list

\* No folder was selected, searched or fetched, nothing was written and
\* nothing was changed on the server.
NothingTouched ==
  /\ last_op \in {"connect", "login", "list", "logout"}
  /\ pc \in {"login", "list", "except", "finally", "exit"}
  /\ written = <<>>
  /\ files = <<>>
  /\ dirs = initial.dirs
  /\ made = <<>>
  /\ mailbox = initial.mailbox
  /\ deleted_flags = initial.deleted_flags
  /\ expunged = {}
  /\ \A m \in Msgs : trash[m] = 0

\* C11: when explicit names are requested and one of them matches no
\* remote folder, nothing is ever selected, searched, fetched, written or
\* deleted, and once mail.list() has answered the run fails with
\* AttributeError carrying all unmatched names; when all names match,
\* the selected folder is the requested name in its remote spelling.
C11_UnknownFoldersBeforeExport ==
  ExplicitNames =>
    IF Unmatched # {}
    THEN /\ NothingTouched
         /\ remote_folders_map # <<>> =>
              error = [type |-> "AttributeError", args |-> <<Unmatched>>]
    ELSE /\ error.type # "AttributeError"
         /\ pc \in {"search", "fetch", "write", "close"} \cup DeletePcs =>
              /\ folder \in Range(RemoteFolders)
              /\ Strip(Lower(folder)) = Requested[fidx]

\* C11's case: of three requested names one matches, and the run has
\* ended reporting the other two.
C11_Witness ==
  /\ ExplicitNames
  /\ Cardinality(Unmatched) = 2
  /\ Len(Requested) = 3
  /\ pc = "exit"
  /\ error.type = "AttributeError"

\* The errors process and main raise themselves: search reported a status
\* other than OK, args.local_folder is no directory, fetch reported a
\* status other than OK, select reported a status other than OK.
FatalErrors ==
  {"FileNotFoundError", "NotADirectoryError", "OSError", "ConnectionError"}

\* main's except and finally clauses, and the end of the run.
HandlerPcs == {"except", "finally", "exit"}

\* C12: a fatal error takes the run to main's handler, and from there on
\* no token is fetched, no file written, no directory made, nothing is
\* changed on the server and no folder selected; mail.logout is the only
\* Session call left.
C12_FatalErrorStopsRun ==
  /\ [](error.type \in FatalErrors => pc \in HandlerPcs)
  /\ [][(pc \in HandlerPcs) =>
          /\ pc' \in HandlerPcs
          /\ error' = error
          /\ UNCHANGED <<server, disk, folders, messages>>
          /\ last_op' # last_op => last_op' = "logout" ]_vars

\* C12's case: the run has ended on a failed fetch after a message was
\* written and moved to trash.
C12_Witness ==
  /\ pc = "exit"
  /\ error.type = "OSError"
  /\ written # <<>>
  /\ \E m \in Msgs : trash[m] > 0
  /\ last_op = "logout"

\* C13: the count process prints for a folder is the number of tokens the
\* search returned.
C13_CountIsNumberOfTokens ==
  pc \in LoopPcs \cup {"close"} => count_printed = Len(tokens)

\* C14: fitting a fitted name changes nothing, for every name, extension
\* and PC_NAME_MAX, and a name within the byte budget is returned as it is.
C14_FitIdempotent ==
  /\ fit.pc = "refitted" => fit.again = fit.out
  /\ (fit.pc \in {"fitted", "refitted"}
        /\ Len(Utf8Encode(fit.name)) <= FitBudget) => fit.out = fit.name

\* C14 where PC_NAME_MAX leaves room for the extension and the dot.
C14_FitIdempotentWhenRoom == FitBudget >= 0 => C14_FitIdempotent

\* The subject and identifier segments of the composed name: subject and
\* message_id of process after their re.sub.
SubjectSegment == sanitize_subject(extract_metadata(naming.msg)[1])
IdSegment ==
  sanitize_message_id(
    IF lacks_message_id(extract_metadata(naming.msg)[3])
    THEN IntToStr(naming.counter + 1)
    ELSE extract_metadata(naming.msg)[3])

\* C15: the composed name ends with the identifier segment, ' - ' and the
\* subject segment; the subject segment holds no \r, \n, " or /, the
\* identifier segment none of < > $ \ /, and neither the composed nor the
\* fitted name holds a /, so the file lies directly in final_dir.
C15_NameHasNoSlash ==
  naming.pc \in {"composed", "fitted"} =>
    /\ Range(SubjectSegment) \cap {10, 13, 34, 47} = {}
    /\ Range(IdSegment) \cap {60, 62, 36, 92, 47} = {}
    /\ \E date \in {UnknownDate, strftime(<<2024, 2, 3, 4, 5, 6>>) \o Separator} :
         naming.file = date \o IdSegment \o Separator \o SubjectSegment
    /\ 47 \notin Range(naming.file)
    /\ naming.pc = "fitted" =>
         /\ 47 \notin Range(naming.out)
         /\ IsPrefix(naming.out, naming.file)

\* C15's case: a subject and a Message-ID that both hold a / have been
\* composed into a name and fitted.
C15_Witness ==
  /\ naming.pc = "fitted"
  /\ naming.msg.subject \notin {None, BadEncodedWord}
  /\ 47 \in Range(naming.msg.subject)
  /\ naming.msg.message_id # None
  /\ 47 \in Range(naming.msg.message_id)
  /\ naming.max = 255

\* A step of process in which the search reported OK.
SearchSucceeded ==
  /\ pc = "search"
  /\ \/ pc' = "fetch"
     \/ pc' = "except" /\ error'.type = "NotADirectoryError"

\* Nothing was fetched or written yet.
NothingFetched ==
  /\ pc \notin {"fetch", "write"}
  /\ last_op # "fetch_message"
  /\ written = <<>>
  /\ data = <<>>

\* C16 as stated: args.local_folder is checked once in a run, however
\* many folders it exports, and when it is missing nothing is fetched.
C16_CheckedOncePerRun ==
  /\ isdir_checks <= 1
  /\ ~local_isdir => NothingFetched

\* C16, amended: args.local_folder is checked once in every pass of
\* process, right after the search reported OK and nowhere else, so as
\* often as folders were searched; a run that ends without error has
\* checked it once per requested folder; a directory that is missing is
\* found in the first pass, after one select and one search, before
\* anything is fetched.
C16_CheckedOncePerFolder ==
  /\ [][IF SearchSucceeded THEN isdir_checks' = isdir_checks + 1
                           ELSE isdir_checks' = isdir_checks]_vars
  /\ []((pc = "exit" /\ error = NoError /\ ~args.list) =>
          isdir_checks = Len(remote_folder))
  /\ [](~local_isdir =>
          /\ NothingFetched
          /\ isdir_checks <= 1
          /\ isdir_checks = 1 <=> error.type = "NotADirectoryError")

\* C16's case: a run over two folders has ended without error and has
\* checked the directory in both passes.
C16_Witness ==
  /\ pc = "exit"
  /\ error = NoError
  /\ Len(remote_folder) = 2
  /\ isdir_checks = 2

\* The files written so far into directory d.
FilesIn(d) == { p \in DOMAIN files : p[1] = d }

\* C17: os.makedirs is called only in the step that writes a file, for
\* the directory of that file, when the directory is missing and holds no
\* file yet; no directory appears otherwise, none is made twice, and
\* every file lies in a directory that exists. A pass without a
\* successful fetch makes no directory.
C17_DirectoryMadeBeforeFirstWrite ==
  /\ [][(made' # made \/ dirs' # dirs) =>
          /\ pc = "write"
          /\ final_dir(folder) \notin dirs
          /\ FilesIn(final_dir(folder)) = {}
          /\ made' = Append(made, final_dir(folder))
          /\ dirs' = dirs \cup {final_dir(folder)}
          /\ Len(written') = Len(written) + 1
          /\ written'[Len(written')].path[1] = final_dir(folder) ]_vars
  /\ [](/\ \A i, j \in DOMAIN made : i # j => made[i] # made[j]
        /\ \A p \in DOMAIN files : p[1] \in dirs
        /\ \A i \in DOMAIN made : FilesIn(made[i]) # {}
        /\ dirs = initial.dirs \cup Range(made))

\* C17's case: a run has ended in which the pass over the empty first
\* folder made no directory and the pass over the second made one for its
\* message.
C17_Witness ==
  /\ made = <<final_dir(MyWork)>>
  /\ initial.mailbox[INBOX] = <<>>
  /\ initial.dirs = {}
  /\ pc = "exit"
  /\ error = NoError

\* C17's other case: a directory that was there before the run is written
\* into and not made.
C17_WitnessExisting ==
  /\ initial.dirs = {final_dir(MyWork)}
  /\ FilesIn(final_dir(MyWork)) # {}
  /\ made = <<final_dir(INBOX)>>
  /\ Len(written) = 3

\* delete has returned after an attempt that ran through to expunge.
DeleteDone ==
  /\ pc = "fetch"
  /\ attempt # <<>>
  /\ attempt[Len(attempt)] = <<"expunge", "OK">>

\* C18: when delete has run through for the message written last, the
\* trash folder holds one copy of that message, however often delete
\* started again.
C18_OneCopyInTrash ==
  DeleteDone => trash[written[Len(written)].msg] = 1

\* No statement of delete has run: no fetch_uid, COPY, STORE or expunge.
NoDeleteCalls ==
  /\ pc \notin DeletePcs
  /\ last_op \notin DeletePcs
  /\ attempt = <<>>
  /\ expunged = {}
  /\ \A m \in Msgs : trash[m] = 0

\* C19: in a run without --delete-remote no statement of delete runs and
\* every remote folder holds the messages it held when the run started.
C19_NoRemoteChangeWithoutDelete ==
  ~args.delete_remote =>
    /\ NoDeleteCalls
    /\ \A f \in Range(RemoteFolders) : mailbox[f] = initial.mailbox[f]

=============================================================================
